---- MODULE Spec2Model ----
(***************************************************************************)
(* Client-side authentication/session lifecycle of the bakery frontend:    *)
(* the token/user store (utils/auth.ts), the API gateway client            *)
(* (services/api.ts), the session controller (hooks/useAuth: AuthProvider) *)
(* and the views that call it (LoginPage, RegisterPage, Navbar), together  *)
(* with the route guard (ProtectedRoute) and the route table (App).        *)
(*                                                                         *)
(* One browser tab is modelled in full.  localStorage is shared with the   *)
(* other tabs of the same application, whose writes appear as the          *)
(* OtherTab actions.  Every value is a tuple so that absent values (Null)  *)
(* compare with present ones.                                              *)
(***************************************************************************)
EXTENDS Integers, Sequences, FiniteSets, TLC

VARIABLES
    localStorage,   \* durable store: [token, user] (keys 'token' and 'user')
    user,           \* AuthProvider state: the current user, or Null
    loading,        \* AuthProvider state: loading
    defaultAuth,    \* axiosInstance.defaults.headers.common['Authorization']
    pending,        \* the authentication operation awaiting a response
    apiPending,     \* number of pass-through requests awaiting a response
    hardNav,        \* window.location.href = '/login' assigned, page not yet unloaded
    location,       \* router location (pathname)
    from,           \* location.state.from.pathname of the current history entry
    ev              \* what the last step did: request sent, outcome, notification

vars == <<localStorage, user, loading, defaultAuth, pending, apiPending,
          hardNav, location, from, ev>>

----------------------------------------------------------------------------
(* Bounds *)

MaxTokens == 2
MaxUsers == 2
MaxApiCalls == 1

----------------------------------------------------------------------------
(* Values *)

Null == <<>>

Unauthorized == 401

Tokens == {<<"tok", i>> : i \in 1..MaxTokens}

\* role of user record i; the four roles of UserRole and one value outside it
RoleNames == <<"customer", "baker", "delivery_person", "admin", "other">>

UserRecord(i) == <<"user", i, RoleNames[((i - 1) % Len(RoleNames)) + 1]>>

Users == {UserRecord(i) : i \in 1..MaxUsers}

\* one user record of every role
AllUsers == {UserRecord(i) : i \in 1..Len(RoleNames)}

Roles == {RoleNames[i] : i \in 1..Len(RoleNames)}

RoleOf(u) == IF u = Null THEN Null ELSE <<u[3]>>

\* JSON.stringify(user) and JSON.parse(userStr); CorruptJson is a stored
\* string that is no JSON text
Stringify(u) == <<"json", u>>

CorruptJson == <<"notjson">>

Parses(s) == s # Null /\ s[1] = "json"

Parse(s) == s[2]

\* `Bearer ${token}`
Bearer(t) == <<"Bearer", t>>

NoHeader == Null

\* a rejected request: an HTTP error status, or no response at all
Failures == {<<"http", 400>>, <<"http", Unauthorized>>, <<"http", 500>>, <<"network">>}

\* mutant: every HTTP error status is treated as a 401
Is401AnyHttp(err) == err[1] = "http"

\* error.response?.status === 401
Is401(err) == err[1] = "http" /\ err[2] = Unauthorized

NoFrom == "none"

Paths == {"/login", "/register", "/", "/orders", "/baker", "/delivery", "/admin", "/nowhere"}

----------------------------------------------------------------------------
(* utils/auth.ts: the token/user store *)

Truthy(x) == x # Null

\* mutant: the token is not persisted
setTokenDropped(ls, token) == ls

setToken(ls, token) == [ls EXCEPT !.token = token]

getToken(ls) == ls.token

removeToken(ls) == [ls EXCEPT !.token = Null]

setUser(ls, u) == [ls EXCEPT !.user = Stringify(u)]

\* JSON.parse throws on a string that is no JSON text
getUserThrows(ls) == Truthy(ls.user) /\ ~Parses(ls.user)

getUser(ls) == IF Truthy(ls.user) THEN Parse(ls.user) ELSE Null

\* mutant: the user record is never removed
removeUserKept(ls) == ls

removeUser(ls) == [ls EXCEPT !.user = Null]

\* mutant: the user record is left behind
authLogoutTokenOnly(ls) == removeToken(ls)

authLogout(ls) == removeUser(removeToken(ls))

----------------------------------------------------------------------------
(* services/api.ts: the gateway *)

\* mutant: a default header set by setAuthToken wins over the stored token
RequestAuthDefaultFirst(ls, defaults) ==
    IF defaults # Null THEN defaults
    ELSE IF Truthy(ls.token) THEN Bearer(ls.token) ELSE defaults

\* request interceptor, applied to the config already merged with the
\* instance defaults: the header the request leaves with
RequestAuth(ls, defaults) ==
    IF Truthy(ls.token) THEN Bearer(ls.token) ELSE defaults

\* mutant: only the token is removed on a 401
InterceptStoreTokenOnly(err, ls) ==
    IF Is401(err) THEN [ls EXCEPT !.token = Null] ELSE ls

\* mutant: the interceptor redirects without touching the store
InterceptStoreKept(err, ls) == ls

\* response interceptor, rejected branch: the store afterwards
InterceptStore(err, ls) ==
    IF Is401(err) THEN [token |-> Null, user |-> Null] ELSE ls

\* response interceptor, rejected branch: window.location.href = '/login'
InterceptNav(err, hn) == IF Is401(err) THEN TRUE ELSE hn

setAuthToken(defaults, token) ==
    IF Truthy(token) THEN Bearer(token) ELSE NoHeader

----------------------------------------------------------------------------
(* components/ProtectedRoute.tsx and App.tsx: the guard and the route table *)

\* App.tsx route table: <<kind, requiredRole>>
RouteOf(p) ==
    CASE p = "/login" -> <<"public", Null>>
      [] p = "/register" -> <<"public", Null>>
      [] p = "/" -> <<"protected", Null>>
      [] p = "/products" -> <<"protected", Null>>
      [] p = "/orders" -> <<"protected", Null>>
      [] p = "/profile" -> <<"protected", Null>>
      [] p = "/baker" -> <<"protected", <<"baker">>>>
      [] p = "/delivery" -> <<"protected", <<"delivery_person">>>>
      [] p = "/admin" -> <<"protected", <<"admin">>>>
      [] OTHER -> <<"catchall", Null>>

\* mutant: admins and bakers are sent to each other's dashboard
RoleHomeCrossed(role) ==
    CASE role = <<"admin">> -> "/baker"
      [] role = <<"baker">> -> "/admin"
      [] role = <<"delivery_person">> -> "/delivery"
      [] OTHER -> "/"

\* the switch of ProtectedRoute on the user's own role
RoleHome(role) ==
    CASE role = <<"admin">> -> "/admin"
      [] role = <<"baker">> -> "/baker"
      [] role = <<"delivery_person">> -> "/delivery"
      [] OTHER -> "/"

\* mutant: user !== undefined, which null satisfies
isAuthenticatedNotUndefined(u) == TRUE

\* hooks/useAuth: const isAuthenticated = !!user
isAuthenticated(u) == Truthy(u)

\* mutant: an admin passes every role check
hasRoleAdminSuperset(u, role) ==
    IF u = Null THEN FALSE ELSE (u[3] = role \/ u[3] = "admin")

\* hooks/useAuth: const hasRole = (role) => user?.role === role
hasRole(u, role) == IF u = Null THEN FALSE ELSE u[3] = role

\* mutant: the guard decides before the session is restored
GuardNoSpinner(p, ld, u) ==
    LET r == RouteOf(p) IN
    IF r[1] = "public" THEN <<"render", p, NoFrom>>
    ELSE IF r[1] = "catchall" THEN <<"redirect", "/", NoFrom>>
    ELSE IF ~isAuthenticated(u) THEN <<"redirect", "/login", p>>
    ELSE IF Truthy(r[2]) /\ RoleOf(u) # r[2] THEN <<"redirect", RoleHome(RoleOf(u)), NoFrom>>
    ELSE <<"render", p, NoFrom>>

\* mutant: an admin is let into every role-specific route
GuardAdminSuperset(p, ld, u) ==
    LET r == RouteOf(p) IN
    IF r[1] = "public" THEN <<"render", p, NoFrom>>
    ELSE IF r[1] = "catchall" THEN <<"redirect", "/", NoFrom>>
    ELSE IF ld THEN <<"spinner", p, NoFrom>>
    ELSE IF ~isAuthenticated(u) THEN <<"redirect", "/login", p>>
    ELSE IF Truthy(r[2]) /\ RoleOf(u) # r[2] /\ RoleOf(u) # <<"admin">>
         THEN <<"redirect", RoleHome(RoleOf(u)), NoFrom>>
    ELSE <<"render", p, NoFrom>>

\* one evaluation of the element rendered at path p:
\* <<"render" | "spinner" | "redirect", target, state.from>>
Guard(p, ld, u) ==
    LET r == RouteOf(p) IN
    IF r[1] = "public" THEN <<"render", p, NoFrom>>
    ELSE IF r[1] = "catchall" THEN <<"redirect", "/", NoFrom>>
    ELSE IF ld THEN <<"spinner", p, NoFrom>>
    ELSE IF ~isAuthenticated(u) THEN <<"redirect", "/login", p>>
    ELSE IF Truthy(r[2]) /\ RoleOf(u) # r[2] THEN <<"redirect", RoleHome(RoleOf(u)), NoFrom>>
    ELSE <<"render", p, NoFrom>>

\* the router follows <Navigate> elements until a view stays
RECURSIVE Settle(_, _, _, _, _)
Settle(p, f, ld, u, fuel) ==
    LET g == Guard(p, ld, u) IN
    IF g[1] = "redirect" /\ fuel > 0
    THEN Settle(g[2], g[3], ld, u, fuel - 1)
    ELSE <<p, f>>

\* no chain of redirects is longer than the route table
MaxRedirects == Cardinality(Paths)

\* the view shown after the session state of the next state is rendered
Rendered(p, f) ==
    LET s == Settle(p, f, loading', user', MaxRedirects) IN
    /\ location' = s[1]
    /\ from' = s[2]

IsProtected(p) == RouteOf(p)[1] = "protected"

----------------------------------------------------------------------------
(* what a step did *)

Ev(op, req, auth, err, body, thrown, toast, nav) ==
    [op |-> op, req |-> req, auth |-> auth, err |-> err, body |-> body,
     thrown |-> thrown, toast |-> toast, nav |-> nav]

NoSend == <<"nosend">>

Idle == [pc |-> "idle", tok |-> Null, u |-> Null, frm |-> NoFrom]

Mounting == [pc |-> "mount", tok |-> Null, u |-> Null, frm |-> NoFrom]

----------------------------------------------------------------------------
(* Initial state: the application has just been loaded at some path, over  *)
(* whatever an earlier visit left in the durable store.                    *)

StoredUsers == {Stringify(u) : u \in Users}

Init ==
    /\ localStorage \in [token : Tokens \cup {Null},
                         user : StoredUsers \cup {Null, CorruptJson}]
    /\ user = Null
    /\ loading = TRUE
    /\ defaultAuth = NoHeader
    /\ pending = Mounting
    /\ apiPending = 0
    /\ hardNav = FALSE
    /\ from = NoFrom
    /\ \E p \in Paths :
          /\ location = Settle(p, NoFrom, TRUE, Null, MaxRedirects)[1]
          /\ ev = Ev("load", "none", NoSend, Null, Null, Null, "none", p)

----------------------------------------------------------------------------
(* hooks/useAuth: AuthProvider, startup restoration (initAuth)             *)

\* JSON.parse throws inside initAuth: the promise rejects and nothing after
\* line 39 runs
InitAuthThrows ==
    /\ pending.pc = "mount"
    /\ getUserThrows(localStorage)
    /\ pending' = Idle
    /\ UNCHANGED <<localStorage, user, loading, defaultAuth, apiPending, hardNav>>
    /\ Rendered(location, from)
    /\ ev' = Ev("initThrows", "none", NoSend, Null, Null, Null, "none", NoFrom)

\* mutant: loading is switched off without awaiting the validation call
InitAuthValidateNotAwaited ==
    /\ pending.pc = "mount"
    /\ ~getUserThrows(localStorage)
    /\ Truthy(getToken(localStorage)) /\ Truthy(getUser(localStorage))
    /\ pending' = [Idle EXCEPT !.pc = "init", !.u = getUser(localStorage)]
    /\ loading' = FALSE
    /\ UNCHANGED <<localStorage, user, defaultAuth, apiPending, hardNav>>
    /\ Rendered(location, from)
    /\ ev' = Ev("initValidate", "me", RequestAuth(localStorage, defaultAuth),
                Null, Null, Null, "none", NoFrom)

\* token && storedUser: the validation request is sent
InitAuthValidate ==
    /\ pending.pc = "mount"
    /\ ~getUserThrows(localStorage)
    /\ Truthy(getToken(localStorage)) /\ Truthy(getUser(localStorage))
    /\ pending' = [Idle EXCEPT !.pc = "init", !.u = getUser(localStorage)]
    /\ UNCHANGED <<localStorage, user, loading, defaultAuth, apiPending, hardNav>>
    /\ Rendered(location, from)
    /\ ev' = Ev("initValidate", "me", RequestAuth(localStorage, defaultAuth),
                Null, Null, Null, "none", NoFrom)

\* nothing to restore: no request
InitAuthNothing ==
    /\ pending.pc = "mount"
    /\ ~getUserThrows(localStorage)
    /\ ~(Truthy(getToken(localStorage)) /\ Truthy(getUser(localStorage)))
    /\ pending' = Idle
    /\ loading' = FALSE
    /\ UNCHANGED <<localStorage, user, defaultAuth, apiPending, hardNav>>
    /\ Rendered(location, from)
    /\ ev' = Ev("initNothing", "none", NoSend, Null, Null, Null, "none", NoFrom)

\* mutant: the record returned by the validation call becomes the user
InitAuthUserFromResponse(storedUser, body) == body

\* the session state after the validation call succeeded
InitAuthUser(storedUser, body) == storedUser

InitAuthOk(body) ==
    /\ pending.pc = "init"
    /\ user' = InitAuthUser(pending.u, body)
    /\ loading' = FALSE
    /\ pending' = Idle
    /\ UNCHANGED <<localStorage, defaultAuth, apiPending, hardNav>>
    /\ Rendered(location, from)
    /\ ev' = Ev("initOk", "none", NoSend, Null, body, Null, "none", NoFrom)

\* mutant: the catch does not clear the store
InitAuthFailStoreNoCatch(err, ls) == InterceptStore(err, ls)

\* the store after the validation call failed: interceptor, then the catch
InitAuthFailStore(err, ls) == authLogout(InterceptStore(err, ls))

InitAuthFail(err) ==
    /\ pending.pc = "init"
    /\ localStorage' = InitAuthFailStore(err, localStorage)
    /\ hardNav' = InterceptNav(err, hardNav)
    /\ user' = Null
    /\ loading' = FALSE
    /\ pending' = Idle
    /\ UNCHANGED <<defaultAuth, apiPending>>
    /\ Rendered(location, from)
    /\ ev' = Ev("initFail", "none", NoSend, err, Null, Null, "none", NoFrom)

----------------------------------------------------------------------------
(* AuthProvider.login, called by LoginPage.onSubmit                        *)

\* mutant: the captured destination is ignored
FromOrHomeIgnored(f) == "/"

\* const from = location.state?.from?.pathname || '/'
FromOrHome(f) == IF f = NoFrom THEN "/" ELSE f

\* the submit button of LoginPage is disabled while loading
LoginSubmit ==
    /\ pending.pc # "mount"
    /\ location = "/login"
    /\ ~loading
    /\ loading' = TRUE
    /\ pending' = [Idle EXCEPT !.pc = "login", !.frm = FromOrHome(from)]
    /\ UNCHANGED <<localStorage, user, defaultAuth, apiPending, hardNav>>
    /\ Rendered(location, from)
    /\ ev' = Ev("loginSubmit", "login", RequestAuth(localStorage, defaultAuth),
                Null, Null, Null, "none", NoFrom)

\* lines 61-68: the token is persisted and propagated, then the profile
\* request is sent
LoginExchangeOk(token) ==
    /\ pending.pc = "login"
    /\ localStorage' = setToken(localStorage, token)
    /\ defaultAuth' = setAuthToken(defaultAuth, token)
    /\ pending' = [pending EXCEPT !.pc = "profile", !.tok = token]
    /\ UNCHANGED <<user, loading, apiPending, hardNav>>
    /\ Rendered(location, from)
    /\ ev' = Ev("loginExchangeOk", "me", RequestAuth(localStorage', defaultAuth'),
                Null, token, Null, "none", NoFrom)

\* the session state after a call of login was rejected (catch and finally)
LoginFailUser(u) == u

\* mutant: the catch swallows the error
RethrowSwallowed(err) == Null

\* throw error: what login and register raise to their caller from the catch
Rethrow(err) == err

LoginFail(op, err) ==
    /\ localStorage' = InterceptStore(err, localStorage)
    /\ hardNav' = InterceptNav(err, hardNav)
    /\ user' = LoginFailUser(user)
    /\ loading' = FALSE
    /\ pending' = Idle
    /\ UNCHANGED <<defaultAuth, apiPending>>
    /\ Rendered(location, from)
    /\ ev' = Ev(op, "none", NoSend, err, Null, Rethrow(err), "error", NoFrom)

LoginExchangeFail(err) ==
    /\ pending.pc = "login"
    /\ LoginFail("loginExchangeFail", err)

\* mutant: the fetched profile is not persisted
LoginProfileStoreSkipped(ls, profile) == ls

\* lines 69-72 and 77, then navigate(from, { replace: true }) in onSubmit
LoginProfileStore(ls, profile) == setUser(ls, profile)

LoginProfileOk(profile) ==
    /\ pending.pc = "profile"
    /\ localStorage' = LoginProfileStore(localStorage, profile)
    /\ user' = profile
    /\ loading' = FALSE
    /\ pending' = Idle
    /\ UNCHANGED <<defaultAuth, apiPending, hardNav>>
    /\ Rendered(pending.frm, NoFrom)
    /\ ev' = Ev("loginOk", "none", NoSend, Null, profile, Null, "success", pending.frm)

LoginProfileFail(err) ==
    /\ pending.pc = "profile"
    /\ LoginFail("loginProfileFail", err)

----------------------------------------------------------------------------
(* AuthProvider.register, called by RegisterPage.onSubmit                  *)

RegisterSubmit ==
    /\ pending.pc # "mount"
    /\ location = "/register"
    /\ ~loading
    /\ loading' = TRUE
    /\ pending' = [Idle EXCEPT !.pc = "register"]
    /\ UNCHANGED <<localStorage, user, defaultAuth, apiPending, hardNav>>
    /\ Rendered(location, from)
    /\ ev' = Ev("registerSubmit", "register", RequestAuth(localStorage, defaultAuth),
                Null, Null, Null, "none", NoFrom)

\* mutant: the created account is logged in at once
RegisterUserAutoLogin(u, newUser) == newUser

\* the session state after the account was created
RegisterUser(u, newUser) == u

\* toast.success, finally, then navigate('/login') in onSubmit
RegisterOk(newUser) ==
    /\ pending.pc = "register"
    /\ user' = RegisterUser(user, newUser)
    /\ loading' = FALSE
    /\ pending' = Idle
    /\ UNCHANGED <<localStorage, defaultAuth, apiPending, hardNav>>
    /\ Rendered("/login", NoFrom)
    /\ ev' = Ev("registerOk", "none", NoSend, Null, newUser, Null, "success", "/login")

\* toast.error, throw, finally; the catch of onSubmit only sets a form error
RegisterFail(err) ==
    /\ pending.pc = "register"
    /\ localStorage' = InterceptStore(err, localStorage)
    /\ hardNav' = InterceptNav(err, hardNav)
    /\ loading' = FALSE
    /\ pending' = Idle
    /\ UNCHANGED <<user, defaultAuth, apiPending>>
    /\ Rendered(location, from)
    /\ ev' = Ev("registerFail", "none", NoSend, err, Null, Rethrow(err), "error", NoFrom)

----------------------------------------------------------------------------
(* AuthProvider.logout, called by Navbar.handleLogout, which then          *)
(* navigates to '/login'.  The Navbar offers it while isAuthenticated.     *)

Logout ==
    /\ pending.pc # "mount"
    /\ Truthy(user)
    /\ localStorage' = authLogout(localStorage)
    /\ user' = Null
    /\ UNCHANGED <<loading, defaultAuth, pending, apiPending, hardNav>>
    /\ Rendered("/login", NoFrom)
    /\ ev' = Ev("logout", "none", NoSend, Null, Null, Null, "success", "/login")

----------------------------------------------------------------------------
(* pass-through calls of the protected views (products, orders, ...)       *)

ApiCall ==
    /\ pending.pc # "mount"
    /\ IsProtected(location) /\ ~loading /\ Truthy(user)
    /\ apiPending < MaxApiCalls
    /\ apiPending' = apiPending + 1
    /\ UNCHANGED <<localStorage, user, loading, defaultAuth, pending, hardNav>>
    /\ Rendered(location, from)
    /\ ev' = Ev("apiCall", "api", RequestAuth(localStorage, defaultAuth),
                Null, Null, Null, "none", NoFrom)

ApiOk ==
    /\ apiPending > 0
    /\ apiPending' = apiPending - 1
    /\ UNCHANGED <<localStorage, user, loading, defaultAuth, pending, hardNav>>
    /\ Rendered(location, from)
    /\ ev' = Ev("apiOk", "none", NoSend, Null, Null, Null, "none", NoFrom)

ApiFail(err) ==
    /\ apiPending > 0
    /\ apiPending' = apiPending - 1
    /\ localStorage' = InterceptStore(err, localStorage)
    /\ hardNav' = InterceptNav(err, hardNav)
    /\ UNCHANGED <<user, loading, defaultAuth, pending>>
    /\ Rendered(location, from)
    /\ ev' = Ev("apiFail", "none", NoSend, err, Null, err, "none", NoFrom)

----------------------------------------------------------------------------
(* the browser: client-side navigation, page loads, other tabs             *)

\* navigate(path) from the Navbar or a dashboard link
Goto(p) ==
    /\ pending.pc # "mount"
    /\ p # location
    /\ UNCHANGED <<localStorage, user, loading, defaultAuth, pending, apiPending, hardNav>>
    /\ Rendered(p, NoFrom)
    /\ ev' = Ev("goto", "none", NoSend, Null, Null, Null, "none", p)

\* the document is loaded anew at path p: memory is lost, the store is kept;
\* a refresh of the same entry keeps its history state
LoadPage(p, f) ==
    /\ user' = Null
    /\ loading' = TRUE
    /\ defaultAuth' = NoHeader
    /\ pending' = Mounting
    /\ apiPending' = 0
    /\ hardNav' = FALSE
    /\ UNCHANGED localStorage
    /\ Rendered(p, f)
    /\ ev' = Ev("load", "none", NoSend, Null, Null, Null, "none", p)

PageLoad(p) ==
    /\ ~hardNav
    /\ LoadPage(p, IF p = location THEN from ELSE NoFrom)

\* the navigation forced by the response interceptor takes place
HardNavigation ==
    /\ hardNav
    /\ LoadPage("/login", NoFrom)

\* another tab of the application writes the shared store
OtherTabSetToken(token) ==
    /\ localStorage' = setToken(localStorage, token)
    /\ UNCHANGED <<user, loading, defaultAuth, pending, apiPending, hardNav, location, from>>
    /\ ev' = Ev("otherTabSetToken", "none", NoSend, Null, Null, Null, "none", NoFrom)

OtherTabSetUser(u) ==
    /\ localStorage' = setUser(localStorage, u)
    /\ UNCHANGED <<user, loading, defaultAuth, pending, apiPending, hardNav, location, from>>
    /\ ev' = Ev("otherTabSetUser", "none", NoSend, Null, Null, Null, "none", NoFrom)

OtherTabClear ==
    /\ localStorage' = authLogout(localStorage)
    /\ UNCHANGED <<user, loading, defaultAuth, pending, apiPending, hardNav, location, from>>
    /\ ev' = Ev("otherTabClear", "none", NoSend, Null, Null, Null, "none", NoFrom)

----------------------------------------------------------------------------

Next ==
    \/ InitAuthThrows
    \/ InitAuthValidate
    \/ InitAuthNothing
    \/ \E body \in Users : InitAuthOk(body)
    \/ \E err \in Failures : InitAuthFail(err)
    \/ LoginSubmit
    \/ \E token \in Tokens : LoginExchangeOk(token)
    \/ \E err \in Failures : LoginExchangeFail(err)
    \/ \E profile \in Users : LoginProfileOk(profile)
    \/ \E err \in Failures : LoginProfileFail(err)
    \/ RegisterSubmit
    \/ \E newUser \in Users : RegisterOk(newUser)
    \/ \E err \in Failures : RegisterFail(err)
    \/ Logout
    \/ ApiCall
    \/ ApiOk
    \/ \E err \in Failures : ApiFail(err)
    \/ \E p \in Paths : Goto(p)
    \/ \E p \in Paths : PageLoad(p)
    \/ HardNavigation
    \/ \E token \in Tokens : OtherTabSetToken(token)
    \/ \E u \in Users : OtherTabSetUser(u)
    \/ OtherTabClear

Spec == Init /\ [][Next]_vars

TypeOK ==
    /\ localStorage.token \in Tokens \cup {Null}
    /\ localStorage.user \in StoredUsers \cup {Null, CorruptJson}
    /\ user \in Users \cup {Null}
    /\ loading \in BOOLEAN
    /\ defaultAuth \in {Bearer(t) : t \in Tokens} \cup {NoHeader}
    /\ pending.pc \in {"mount", "init", "idle", "login", "profile", "register"}
    /\ apiPending \in 0..MaxApiCalls
    /\ hardNav \in BOOLEAN
    /\ location \in Paths
    /\ from \in Paths \cup {NoFrom}

----------------------------------------------------------------------------
(* The guard and the role predicate over every role: a session of any      *)
(* user (or none), restoring or settled, in which the visitor navigates    *)
(* and a view asks hasRole.                                                *)

InitGuard ==
    /\ user \in AllUsers \cup {Null}
    /\ loading \in BOOLEAN
    /\ localStorage = IF user = Null
                      THEN [token |-> Null, user |-> Null]
                      ELSE [token |-> <<"tok", 1>>, user |-> Stringify(user)]
    /\ defaultAuth = NoHeader
    /\ pending = IF loading THEN [Idle EXCEPT !.pc = "register"] ELSE Idle
    /\ apiPending = 0
    /\ hardNav = FALSE
    /\ from = NoFrom
    /\ \E p \in Paths :
          /\ location = Settle(p, NoFrom, loading, user, MaxRedirects)[1]
          /\ ev = Ev("start", "none", NoSend, Null, Null, Null, "none", p)

\* a view evaluates hasRole(role) of the context
CheckRole(role) ==
    /\ UNCHANGED <<localStorage, user, loading, defaultAuth, pending, apiPending,
                   hardNav, location, from>>
    /\ ev' = Ev("hasRole", "none", NoSend, Null, <<role, hasRole(user, role)>>,
                Null, "none", NoFrom)

NextGuard ==
    \/ \E p \in Paths : Goto(p)
    \/ \E role \in Roles : CheckRole(role)

SpecGuard == InitGuard /\ [][NextGuard]_vars

----------------------------------------------------------------------------
(* One page load left to itself: startup restoration over any store, and   *)
(* the reload forced by a 401 on the validation call.  Every request is    *)
(* eventually answered and every continuation eventually runs.             *)

NextRestore ==
    \/ InitAuthThrows
    \/ InitAuthValidate
    \/ InitAuthNothing
    \/ \E body \in Users : InitAuthOk(body)
    \/ \E err \in Failures : InitAuthFail(err)
    \/ HardNavigation

SpecRestore == Init /\ [][NextRestore]_vars /\ WF_vars(NextRestore)

----------------------------------------------------------------------------
(* Logins that fail, attempted in a session that is already authenticated: *)
(* the store holds the token the session was established with and the      *)
(* profile fetched with it; every credentials exchange of this page        *)
(* returns another token, and no profile fetch of this page succeeds.      *)

SessionToken == <<"tok", 1>>

InitRelogin ==
    /\ user \in Users
    /\ localStorage = [token |-> SessionToken, user |-> Stringify(user)]
    /\ loading = FALSE
    /\ defaultAuth \in {NoHeader, Bearer(SessionToken)}
    /\ pending = Idle
    /\ apiPending = 0
    /\ hardNav = FALSE
    /\ from = NoFrom
    /\ \E p \in Paths :
          /\ location = Settle(p, NoFrom, loading, user, MaxRedirects)[1]
          /\ ev = Ev("start", "none", NoSend, Null, Null, Null, "none", p)

NextRelogin ==
    \/ LoginSubmit
    \/ \E token \in Tokens \ {SessionToken} : LoginExchangeOk(token)
    \/ \E err \in Failures : LoginExchangeFail(err)
    \/ \E err \in Failures : LoginProfileFail(err)
    \/ \E p \in Paths : Goto(p)

SpecRelogin == InitRelogin /\ [][NextRelogin]_vars

\* a submit control is enabled only when no authentication operation is pending
SubmitIdle == ~loading => pending.pc = "idle"

----------------------------------------------------------------------------
(* Properties *)

Cleared == [token |-> Null, user |-> Null]

LoginFailed == ev.op \in {"loginExchangeFail", "loginProfileFail"}

\* C1: when the credentials exchange succeeded and the profile fetch failed
\* (any error), then once login has returned the session is unauthenticated
\* and the store holds no token.
C1_LoginAtomicity ==
    ev.op = "loginProfileFail" => (user = Null /\ localStorage.token = Null)

\* C2: a response with status 401, whichever operation issued the request,
\* leaves the store with neither token nor user record, has forced the full
\* navigation to the login view, and the step sends no request (no retry).
C2_UnauthorizedClearsAndRedirects ==
    (ev.err # Null /\ Is401(ev.err)) =>
        (localStorage = Cleared /\ hardNav /\ ev.req = "none" /\ ev.auth = NoSend)

\* a 401 answered the validation call of a restoration that had read a token
\* and a user record
C2_Witness ==
    ev.op = "initFail" /\ Is401(ev.err) /\ localStorage = Cleared /\ hardNav

\* C3: restoration with a token and a user record persisted sends the
\* validation call with the persisted record in hand; when the call succeeds
\* the current user is that persisted record, whatever record the call
\* returned, loading is false and the step leaves the store unchanged.
C3_RestoreSuccess ==
    [][ /\ ev'.op = "initValidate" =>
            (Truthy(getToken(localStorage)) /\ Truthy(pending'.u)
             /\ pending'.u = getUser(localStorage) /\ ev'.req = "me")
        /\ ev'.op = "initOk" =>
            (user' = pending.u /\ Truthy(user') /\ ~loading'
             /\ localStorage' = localStorage /\ ev'.req = "none") ]_vars

\* the validation call returned a record other than the persisted one
C3_Witness ==
    ev.op = "initOk" /\ Truthy(user) /\ ev.body # user
    /\ getUser(localStorage) = user /\ Truthy(localStorage.token)

\* C4: when the validation call of a restoration fails with any error, the
\* store ends with neither token nor user record and the session is
\* unauthenticated with loading false.
C4_RestoreFailure ==
    ev.op = "initFail" => (localStorage = Cleared /\ user = Null /\ ~loading)

\* the validation call failed without a response (not a 401)
C4_Witness ==
    ev.op = "initFail" /\ ev.err = <<"network">> /\ localStorage = Cleared

C6_LoginFailureUnauthenticated ==
    LoginFailed => (user = Null /\ ev.thrown = ev.err /\ ev.toast = "error")

\* C7: a request sent while the store holds token T carries Bearer T.
C7_RequestCarriesStoredToken ==
    (ev.req # "none" /\ Truthy(localStorage.token)) =>
        ev.auth = Bearer(localStorage.token)

\* a request left while the auth-token setter had last been given another token
C7_Witness ==
    /\ ev.req # "none"
    /\ Truthy(localStorage.token)
    /\ defaultAuth # NoHeader
    /\ defaultAuth # Bearer(localStorage.token)
    /\ ev.auth = Bearer(localStorage.token)

\* C8: a request sent while the store holds no token carries no
\* Authorization header (stated for the requests sent while no forced
\* navigation is under way).
C8_NoTokenNoHeader ==
    (ev.req # "none" /\ ~Truthy(localStorage.token) /\ ~hardNav) =>
        ev.auth = NoHeader

\* C9: logout leaves the store with neither token nor user record and the
\* session unauthenticated, and sends no request.
C9_Logout ==
    ev.op = "logout" =>
        (localStorage = Cleared /\ user = Null /\ ev.req = "none" /\ ev.auth = NoSend)

\* logout was called while a login awaited its profile
C9_Witness ==
    ev.op = "logout" /\ pending.pc = "profile" /\ localStorage = Cleared /\ user = Null

\* C10: a successful register leaves the current user and both store records
\* unchanged and the view navigates to the login view; a rejected register
\* re-raises the failure received and the view does not navigate.
C10_Register ==
    [][ /\ ev'.op = "registerOk" =>
            (user' = user /\ localStorage' = localStorage /\ ev'.nav = "/login"
             /\ ev'.thrown = Null)
        /\ ev'.op = "registerFail" =>
            (ev'.thrown = ev'.err /\ Truthy(ev'.thrown) /\ ev'.nav = NoFrom) ]_vars

\* an account was created while a user was signed in
C10_Witness ==
    ev.op = "registerOk" /\ Truthy(user) /\ ev.body # user /\ location = "/login"

\* the home view of each role, as the route table names them
HomeOfRole(role) ==
    CASE role = "admin" -> "/admin"
      [] role = "baker" -> "/baker"
      [] role = "delivery_person" -> "/delivery"
      [] OTHER -> "/"

\* C11: an authenticated visitor who navigates to a protected route is shown
\* that route when it declares no role or exactly the visitor's role, and is
\* otherwise sent to the home of the visitor's own role (admin /admin, baker
\* /baker, delivery_person /delivery, any other role /), never to /login.
C11_RoleCheck ==
    (ev.op = "goto" /\ Truthy(user) /\ ~loading /\ IsProtected(ev.nav)) =>
        LET required == RouteOf(ev.nav)[2] IN
        IF required = Null \/ required = <<user[3]>>
        THEN location = ev.nav
        ELSE location = HomeOfRole(user[3]) /\ location # "/login"

\* an admin asked for the baker-only route and was sent to the admin home
C11_Witness ==
    /\ ev.op = "goto" /\ ev.nav = "/baker" /\ ~loading
    /\ Truthy(user) /\ user[3] = "admin"
    /\ location = "/admin"

\* C12: an unauthenticated visitor (loading false, no current user) who asks
\* for a protected route, by a navigation or by loading the application
\* there, is sent to /login with the requested path captured; the login
\* submitted from that view remembers the captured path, or / when none was
\* captured, and navigates to it when it succeeds.
C12_LoginReturnsToCaptured ==
    [][ /\ (ev'.op = "goto" /\ user' = Null /\ ~loading' /\ IsProtected(ev'.nav)) =>
            (location' = "/login" /\ from' = ev'.nav)
        /\ (ev'.op \in {"initNothing", "initFail"} /\ IsProtected(location)) =>
            (location' = "/login" /\ from' = location)
        /\ ev'.op = "loginSubmit" =>
            (/\ location' = "/login"
             /\ from' = from
             /\ pending'.frm = IF from = NoFrom THEN "/" ELSE from)
        /\ ev'.op = "loginOk" =>
            (/\ ev'.nav = pending.frm
             /\ RouteOf(pending.frm)[2] = Null => location' = pending.frm) ]_vars

\* a login returned the visitor to the route the guard had captured
C12_Witness ==
    ev.op = "loginOk" /\ ev.nav = "/orders" /\ location = "/orders" /\ Truthy(user)

\* C13: while loading is true the guard shows the loading indicator and does
\* not redirect: a protected route asked for stays the location, and a step
\* that asks for no route leaves the location alone; so from the load of a
\* protected route over a persisted session to the success of its validation
\* the visitor is never sent to /login.
C13_NoRedirectWhileRestoring ==
    [][ /\ (loading' /\ ev'.op \in {"load", "goto"} /\ IsProtected(ev'.nav)) =>
            (location' = ev'.nav /\ Guard(location', loading', user')[1] = "spinner")
        /\ (loading' /\ ev'.nav = NoFrom) => location' = location
        /\ ev'.op = "initValidate" => (loading' /\ location' = location)
        /\ (ev'.op = "initOk" /\ location # "/login") => location' # "/login" ]_vars

\* the persisted session validated and the requested protected route is shown
C13_Witness ==
    /\ ev.op = "initOk" /\ location = "/orders" /\ Truthy(user) /\ ~loading
    /\ Guard(location, loading, user)[1] = "render"

\* the restoration step the application has just taken
Restored == ev.op \in {"initThrows", "initValidate", "initNothing"}

\* C14: getUser never raises to its caller: with a persisted user record
\* that cannot be deserialized, startup restoration takes the nothing-to-
\* restore path and the session is unauthenticated with loading false.
C14_GetUserNeverRaises ==
    (Restored /\ localStorage.user = CorruptJson) =>
        (ev.op = "initNothing" /\ user = Null /\ ~loading)

\* a rejected call whose response had status 401
Got401 == ev.err # Null /\ Is401(ev.err)

CallerFailed == ev.op \in {"loginExchangeFail", "loginProfileFail", "registerFail"}

C16_OtherErrorsPassedThrough ==
    [][ (ev'.err # Null /\ ev'.err # <<"http", Unauthorized>>) =>
            /\ hardNav' = hardNav
            /\ InterceptStore(ev'.err, localStorage) = localStorage
            /\ ev'.op # "initFail" =>
                   (localStorage' = localStorage /\ ev'.thrown = ev'.err)
            /\ ev'.op = "apiFail" => (location' = location /\ from' = from) ]_vars

\* a pass-through call was answered 500 and the session is as it was
C16_Witness ==
    /\ ev.op = "apiFail" /\ ev.err = <<"http", 500>> /\ ev.thrown = ev.err
    /\ Truthy(localStorage.token) /\ Truthy(user) /\ ~hardNav

\* C17: hasRole(r) is true exactly when a user is present and its role is r.
C17_HasRoleExact ==
    ev.op = "hasRole" =>
        (ev.body[2] <=> (user # Null /\ user[3] = ev.body[1]))

\* an admin asked whether it is a baker
C17_Witness ==
    /\ ev.op = "hasRole" /\ ev.body = <<"baker", FALSE>>
    /\ user # Null /\ user[3] = "admin"

\* C18: after the store's clear operation, whatever setToken and setUser
\* wrote before, getToken and getUser both return absent.
C18_StoreSymmetry ==
    ev.op \in {"logout", "otherTabClear", "initFail"} =>
        /\ ~getUserThrows(localStorage)
        /\ getToken(localStorage) = Null
        /\ getUser(localStorage) = Null

\* login wrote token and user record in this tab, then the store was cleared
C18_Witness ==
    /\ ev.op = "otherTabClear" /\ defaultAuth # NoHeader /\ Truthy(user)
    /\ getToken(localStorage) = Null /\ getUser(localStorage) = Null

\* C19: the isAuthenticated the guard sees is exactly (user is present):
\* the guard sends a visitor of a protected route to /login exactly when
\* there is no user, whatever the store holds.
C19_IsAuthenticatedIffUser ==
    /\ isAuthenticated(user) <=> user # Null
    /\ \A p \in Paths : IsProtected(p) =>
          (Guard(p, FALSE, user) = <<"redirect", "/login", p>> <=> user = Null)
    /\ (IsProtected(location) /\ ~loading) => user # Null

\* a protected view is shown to a present user while the store is empty
C19_Witness ==
    /\ Truthy(user) /\ localStorage = Cleared /\ ~loading /\ ~hardNav
    /\ IsProtected(location)

\* C20: when the store lacks the token or the user record at application
\* start, restoration sends no validation call and the session is
\* unauthenticated with loading false.
C20_NothingPersisted ==
    (Restored /\ (localStorage.token = Null \/ localStorage.user = Null)) =>
        (ev.op = "initNothing" /\ ev.req = "none" /\ user = Null /\ ~loading)

\* the store holds both a token and a user record, or neither
Paired(ls) == Truthy(ls.token) <=> Truthy(ls.user)

\* a login is between its token-persist step and the end of its profile fetch
InWindow(pnd) == pnd.pc = "profile"

OtherTabOps == {"otherTabSetToken", "otherTabSetUser", "otherTabClear"}

\* C21: store pairing: every step of this page (login, logout, register,
\* restoration, 401 interception) that starts from a paired store, or that
\* ends a login's token-to-profile window, leaves the store holding both a
\* token and a user record or neither, outside that window.
C21_StorePairing ==
    [][ (/\ ev'.op \notin OtherTabOps
         /\ ~InWindow(pending')
         /\ (Paired(localStorage) \/ InWindow(pending))) =>
            Paired(localStorage') ]_vars

\* C22: when a 401 on a pass-through request empties the store while a login
\* is awaiting its profile, and that login then succeeds, the store holds
\* that login's token and that login's user record.
C22_LoginAfterInterception ==
    [][ (/\ ev.op = "apiFail" /\ Got401
         /\ InWindow(pending)
         /\ ev'.op = "loginOk") =>
            (/\ localStorage'.token = pending.tok
             /\ localStorage'.user = Stringify(user')) ]_vars

\* C23: within one login the token returned by the credentials exchange is
\* in the store when the profile request is sent, and that request carries it.
C23_TokenBeforeProfileFetch ==
    ev.op = "loginExchangeOk" =>
        /\ ev.req = "me"
        /\ localStorage.token = ev.body
        /\ pending.tok = ev.body
        /\ ev.auth = Bearer(ev.body)

\* a second login in the same page, answered with another token than the
\* one the store and the default header held
C23_Witness ==
    /\ ev.op = "loginExchangeOk" /\ ev.body = <<"tok", 2>>
    /\ ev.auth = Bearer(<<"tok", 2>>)
    /\ Truthy(user) /\ localStorage.user = Stringify(user)

InFlight == pending.pc \in {"mount", "init", "login", "profile", "register"}

\* C24: the submit controls are enabled only while loading is false, and
\* then no authentication operation (restoration, login, register) is in
\* flight; so the operation a submit starts is the only one in flight.
C24_OneOperationInFlight ==
    /\ ~loading => ~InFlight
    /\ ev.op = "loginSubmit" => (loading /\ pending.pc = "login")
    /\ ev.op = "registerSubmit" => (loading /\ pending.pc = "register")

\* a register call is in flight in a restored session: the controls are off
C24_Witness ==
    /\ ev.op = "registerSubmit" /\ pending.pc = "register" /\ loading
    /\ Truthy(user) /\ location = "/register"

\* C25: loading is true only while restoration has not finished or a login
\* or register call is in flight.
C25_LoadingOnlyWhileInFlight ==
    loading => InFlight

\* C26: once the shared store has been emptied (a logout in another tab),
\* this tab's next navigation to a guarded route treats it as
\* unauthenticated: the visitor is sent to /login.
C26_OtherTabLogoutSeenAtNavigation ==
    (/\ ev.op = "goto" /\ IsProtected(ev.nav) /\ ~loading
     /\ localStorage = Cleared) =>
        location = "/login"

\* C27: restoration terminates: whatever the store holds at application
\* start and however the validation call ends, loading eventually is false.
C27_RestorationTerminates ==
    <>(~loading)

\* C28: token and user record belong to the same login: with no login in
\* flight, a store that holds both a token and a user record holds the token
\* the record was fetched with.  Here every record in the store was fetched
\* with SessionToken, no later profile fetch having succeeded.
C28_TokenAndUserOfSameLogin ==
    (/\ pending.pc = "idle"
     /\ Truthy(localStorage.token) /\ Truthy(localStorage.user)) =>
        localStorage.token = SessionToken

\* the paths the router passes through from p, following the guard's
\* redirects
RECURSIVE Chain(_, _, _, _)
Chain(p, ld, u, fuel) ==
    LET g == Guard(p, ld, u) IN
    IF g[1] = "redirect" /\ fuel > 0
    THEN <<p>> \o Chain(g[2], ld, u, fuel - 1)
    ELSE <<p>>

\* C29: for an authenticated user of any role and any requested path,
\* unknown ones included, the guard's redirects end at a rendered view after
\* at most two redirects and pass through no path twice; that view is where
\* a navigation lands.
C29_RedirectsTerminate ==
    (Truthy(user) /\ ~loading) =>
        /\ \A p \in Paths :
              LET c == Chain(p, loading, user, MaxRedirects) IN
              /\ Len(c) <= 3
              /\ Guard(c[Len(c)], loading, user)[1] = "render"
              /\ \A i, j \in 1..Len(c) : c[i] = c[j] => i = j
        /\ ev.op = "goto" =>
              LET c == Chain(ev.nav, loading, user, MaxRedirects) IN
              location = c[Len(c)]

\* a delivery person asked for an unknown path and was shown the dashboard
C29_Witness ==
    /\ ev.op = "goto" /\ ev.nav = "/nowhere" /\ location = "/"
    /\ Truthy(user) /\ user[3] = "delivery_person" /\ ~loading

\* C30: a 401 causes no reload loop: the navigation forced by the
\* interceptor loads /login over the store the interceptor emptied, and
\* restoration over an empty store on /login sends no request and settles
\* unauthenticated on the login view, with no further navigation requested.
C30_NoReloadLoop ==
    [][ /\ (Got401 /\ hardNav /\ ev'.op = "load") =>
              /\ ev'.nav = "/login" /\ location' = "/login"
              /\ localStorage' = Cleared
              /\ pending' = Mounting /\ ~hardNav'
        /\ (/\ pending.pc = "mount" /\ pending'.pc # "mount"
            /\ localStorage = Cleared /\ location = "/login") =>
              /\ ev'.op = "initNothing" /\ ev'.req = "none"
              /\ user' = Null /\ ~loading' /\ ~hardNav'
              /\ location' = "/login" /\ localStorage' = Cleared ]_vars

\* a pass-through call was answered 401: store emptied, navigation forced
C30_Witness ==
    /\ ev.op = "apiFail" /\ Got401 /\ hardNav
    /\ localStorage = Cleared /\ Truthy(user) /\ IsProtected(location)

====
